---- MODULE Spec2Model ----
(***************************************************************************)
(* A model of flauta's route resolution pipeline (src/src/router.js and    *)
(* the routing DSL).  JavaScript strings are sequences of one-character    *)
(* strings, so that path joining, slugifying and the regular expressions   *)
(* of the path helpers are computed character by character.  JavaScript    *)
(* values carry a "kind" field: "undefined", "null", "object", "array",    *)
(* "string", "error", "route", "module".                                   *)
(***************************************************************************)
EXTENDS Naturals, Sequences, FiniteSets, TLC

VARIABLES
    pc,               \* which call has been made: "init" or the name of the call
    routes,           \* the route tree given to loadRoutes / resolve
    moduleRequirer,   \* the injected module loader: require path -> outcome
    route,            \* the single route given to safeRequireRouteModule / the path builder
    properties,       \* the argument given to a path generator
    alias,            \* the key of the path helper that is called
    router,           \* the router `resolve` returned, kept for the calls of its helpers
    args,             \* the arguments of the last call of a DSL function
    app,              \* the calls made on the framework app, in order
    console,          \* the warnings logged, in order
    loads,            \* the calls of the module requirer, one list per loadRoutes call
    result            \* what the last call returned (or threw)

vars == <<pc, routes, moduleRequirer, route, properties, alias, router, args, app, console, loads,
          result>>

-----------------------------------------------------------------------------
(* JavaScript values                                                       *)

Undefined == [kind |-> "undefined"]
Null == [kind |-> "null"]

isNil(v) == v.kind \in {"undefined", "null"}

Arr(items) == [kind |-> "array", items |-> items]

\* Some enumeration of a finite set (the key order of an object literal).
RECURSIVE SeqOfSet(_)
SeqOfSet(S) ==
    IF S = {} THEN <<>>
    ELSE LET x == CHOOSE y \in S : TRUE IN <<x>> \o SeqOfSet(S \ {x})

\* An object: its own keys in insertion order, and their values.
OrderedObj(keys, map) == [kind |-> "object", keys |-> keys, map |-> map]

Obj(map) == OrderedObj(SeqOfSet(DOMAIN map), map)

EmptyMap == [k \in {} |-> <<>>]

JsError(name, message) == [kind |-> "error", name |-> name, message |-> message]

\* A call either returns a value or throws one.
Return(v) == [kind |-> "return", value |-> v]
Throw(v) == [kind |-> "throw", value |-> v]

\* What the engine throws on a property access or an `in` test on null/undefined.
TypeError == JsError("TypeError", "Cannot convert undefined or null to object")

\* A path-helper function value: the builder applied to its argument.  Calling it is
\* CallGenerator below.
Generator(arg) == [kind |-> "function", bound |-> arg]

-----------------------------------------------------------------------------
(* Strings                                                                 *)

Slash == "/"
Colon == ":"

\* The characters the class [-a-zA-Z_] of pathPropertiesMatcher accepts, within the
\* alphabet of the model.
NameChars ==
    {"a", "b", "c", "d", "e", "f", "g", "h", "i", "j", "k", "l", "m", "n", "o", "p", "q",
     "r", "s", "t", "u", "v", "w", "x", "y", "z", "-", "_"}

RECURSIVE Concat(_)
Concat(ss) == IF ss = <<>> THEN <<>> ELSE Head(ss) \o Concat(Tail(ss))

\* s[from..to], empty when from > to
Slice(s, from, to) == IF from > to THEN <<>> ELSE SubSeq(s, from, to)

StartsWithAt(s, at, prefix) ==
    /\ at + Len(prefix) - 1 <= Len(s)
    /\ \A i \in 1..Len(prefix) : s[at + i - 1] = prefix[i]

\* String.prototype.split('/'): the segments between the slashes
RECURSIVE SplitFrom(_, _, _)
SplitFrom(s, at, acc) ==
    IF at > Len(s) THEN <<acc>>
    ELSE IF s[at] = Slash THEN <<acc>> \o SplitFrom(s, at + 1, <<>>)
    ELSE SplitFrom(s, at + 1, Append(acc, s[at]))

Split(s) == SplitFrom(s, 1, <<>>)

RECURSIVE JoinWith(_, _)
JoinWith(segs, sep) ==
    IF segs = <<>> THEN <<>>
    ELSE IF Len(segs) = 1 THEN segs[1]
    ELSE segs[1] \o sep \o JoinWith(Tail(segs), sep)

-----------------------------------------------------------------------------
(* Ramda functions used by the router (ramda 0.25: data-last, R.adjust(fn, idx)) *)

\* R.head: nth(0), which is list[0]; an object that is no array has no property 0.
RHead(v) ==
    IF v.kind = "array" THEN (IF v.items = <<>> THEN Undefined ELSE v.items[1])
    ELSE Undefined

\* R.last: nth(-1)
RLast(v) ==
    IF v.kind = "array" THEN (IF v.items = <<>> THEN Undefined ELSE v.items[Len(v.items)])
    ELSE Undefined

\* R.isEmpty: x != null && equals(x, empty(x)); false for null and undefined.
RIsEmpty(v) ==
    CASE v.kind = "object" -> v.keys = <<>>
      [] v.kind = "array" -> v.items = <<>>
      [] OTHER -> FALSE

\* R.has(prop, obj) of ramda 0.25: Object.prototype.hasOwnProperty.call(obj, prop),
\* used here on routes, whose optional key is `as`.
RHasAs(r) == "as" \in DOMAIN r

RECURSIVE PickKeys(_, _, _)
PickKeys(names, map, acc) ==
    IF names = <<>> THEN acc
    ELSE LET n == Head(names) IN
         PickKeys(Tail(names), map,
                  IF n \in DOMAIN map /\ \A i \in 1..Len(acc) : acc[i] # n
                  THEN Append(acc, n) ELSE acc)

\* R.pickAll, which also copies the keys the object does not have (as undefined).
RPickAll(names, obj) ==
    IF names = <<>> THEN Return(OrderedObj(<<>>, EmptyMap))
    ELSE IF isNil(obj) THEN Throw(TypeError)
    ELSE LET all == [n \in {names[i] : i \in 1..Len(names)} |-> <<"u", "n", "d", "e", "f", "i", "n", "e", "d">>]
             keys == PickKeys(names, all, <<>>)
         IN Return(OrderedObj(keys,
                [k \in DOMAIN all |-> IF k \in DOMAIN obj.map THEN obj.map[k] ELSE all[k]]))

\* R.pick(names, obj): `names[idx] in obj` for each name, which throws a TypeError on
\* null or undefined as soon as there is one name to test.
RPick(names, obj) ==
    IF names = <<>> THEN Return(OrderedObj(<<>>, EmptyMap))
    ELSE IF isNil(obj) THEN Throw(TypeError)
    ELSE LET keys == PickKeys(names, obj.map, <<>>) IN
         Return(OrderedObj(keys, [k \in {keys[i] : i \in 1..Len(keys)} |-> obj.map[k]]))

\* R.toPairs
RToPairs(obj) == [i \in 1..Len(obj.keys) |-> <<obj.keys[i], obj.map[obj.keys[i]]>>]

Min(S) == CHOOSE x \in S : \A y \in S : x <= y

-----------------------------------------------------------------------------
(* Path helpers: pathPropertiesMatcher and routeModuleTupleToPathBuilder   *)

\* The end of the longest run of [-a-zA-Z_] that starts at `at` (at - 1 when none).
RECURSIVE NameRunEnd(_, _)
NameRunEnd(s, at) ==
    IF at <= Len(s) /\ s[at] \in NameChars THEN NameRunEnd(s, at + 1) ELSE at - 1

\* /(?:^|\/):([-a-zA-Z_]+)(?:\/|$)/ matches with its colon at c, the scan having
\* consumed everything before `from`.
PlaceholderAt(s, from, c) ==
    /\ s[c] = Colon
    /\ \/ c = 1
       \/ c - 1 >= from /\ s[c - 1] = Slash
    /\ LET e == NameRunEnd(s, c + 1) IN
       /\ e >= c + 1
       /\ e = Len(s) \/ s[e + 1] = Slash

\* String.prototype.match with the g flag: the successive non-overlapping matches,
\* each one consuming the slash that ends it.
RECURSIVE MatchAllPlaceholders(_, _)
MatchAllPlaceholders(s, from) ==
    LET cands == {c \in from..Len(s) : PlaceholderAt(s, from, c)} IN
    IF cands = {} THEN <<>>
    ELSE LET c == Min(cands)
             e == NameRunEnd(s, c + 1)
             first == IF c = 1 THEN 1 ELSE c - 1
             last == IF e = Len(s) THEN e ELSE e + 1
         IN <<Slice(s, first, last)>> \o MatchAllPlaceholders(s, last + 1)

\* R.replace(/[\/:]+/g, '')
StripSlashColon(s) == SelectSeq(s, LAMBDA ch : ch \notin {Slash, Colon})

pathPropertiesMatcher(path) ==
    LET ms == MatchAllPlaceholders(path, 1) IN
    [i \in 1..Len(ms) |-> StripSlashColon(ms[i])]

\* The replacement with the pattern missing its closing anchor: (^|/):key
ReplaceParamPrefix(key, value, path) ==
    LET cands == {c \in 1..Len(path) :
                    /\ path[c] = Colon
                    /\ c = 1 \/ path[c - 1] = Slash
                    /\ StartsWithAt(path, c + 1, key)}
    IN IF cands = {} THEN path
       ELSE LET c == Min(cands) IN
            Slice(path, 1, c - 1) \o value \o Slice(path, c + Len(key) + 1, Len(path))

\* R.replace(new RegExp(`(^|/):${key}(/|$)`), `$1${value}$2`, path): the leftmost
\* segment that is exactly :key is replaced by the value, $1 and $2 putting back the
\* separators around it.  (The alphabet of the model has no `$`.)
ReplaceParam(key, value, path) ==
    LET cands == {c \in 1..Len(path) :
                    /\ path[c] = Colon
                    /\ c = 1 \/ path[c - 1] = Slash
                    /\ StartsWithAt(path, c + 1, key)
                    /\ c + Len(key) = Len(path) \/ path[c + Len(key) + 1] = Slash}
    IN IF cands = {} THEN path
       ELSE LET c == Min(cands) IN
            Slice(path, 1, c - 1) \o value \o Slice(path, c + Len(key) + 1, Len(path))

RECURSIVE ReducePairs(_, _)
ReducePairs(path, pairs) ==
    IF pairs = <<>> THEN path
    ELSE ReducePairs(ReplaceParam(Head(pairs)[1], Head(pairs)[2], path), Tail(pairs))

\* routeModuleTupleToPathBuilder(tuple) is a function bound to the tuple ...
routeModuleTupleToPathBuilder(tuple) == Generator(tuple)

\* ... and this is its body, run when the function is called with `props`.
\* R.head(tuple) is undefined when the tuple is no array, and reading .path of it throws.
CallGenerator(gen, props) ==
    LET r == RHead(gen.bound) IN
    IF isNil(r) THEN Throw(TypeError)
    ELSE IF RIsEmpty(props) THEN Return(r.path)
    ELSE LET expectedProperties == pathPropertiesMatcher(r.path)
             validProperties == RPick(expectedProperties, props)
         IN IF validProperties.kind = "throw" THEN validProperties
            ELSE Return(ReducePairs(r.path, RToPairs(validProperties.value)))

-----------------------------------------------------------------------------
(* Routes (src/src/dsl/http.js)                                            *)

\* The Route record built by `route`, before any options are merged.
BaseRoute(httpMethod, path, require, handler) ==
    [kind |-> "route", handler |-> handler, httpMethod |-> httpMethod,
     require |-> require, path |-> path]

\* A module whose own exports are `own`; `default` is the set of names its default
\* export holds.
Module(own, default) == [kind |-> "module", own |-> own, default |-> default]

-----------------------------------------------------------------------------
(* The routing DSL: route, namespace, applyNamespaceToRoute, resources     *)

\* path.normalize of Node (posix): empty and "." segments are dropped, ".." climbs,
\* a leading and a trailing slash are kept.
RECURSIVE NormalizeSegments(_, _, _)
NormalizeSegments(segs, stack, isAbsolute) ==
    IF segs = <<>> THEN stack
    ELSE LET seg == Head(segs) rest == Tail(segs) IN
         IF seg = <<>> \/ seg = <<".">> THEN NormalizeSegments(rest, stack, isAbsolute)
         ELSE IF seg = <<".", ".">>
              THEN IF stack # <<>> /\ stack[Len(stack)] # <<".", ".">>
                   THEN NormalizeSegments(rest, SubSeq(stack, 1, Len(stack) - 1), isAbsolute)
                   ELSE IF isAbsolute THEN NormalizeSegments(rest, stack, isAbsolute)
                   ELSE NormalizeSegments(rest, Append(stack, seg), isAbsolute)
              ELSE NormalizeSegments(rest, Append(stack, seg), isAbsolute)

PathNormalize(p) ==
    IF p = <<>> THEN <<".">>
    ELSE LET isAbsolute == p[1] = Slash
             trailing == p[Len(p)] = Slash
             joined == JoinWith(NormalizeSegments(Split(p), <<>>, isAbsolute), <<Slash>>)
             relative == IF joined = <<>> /\ ~isAbsolute THEN <<".">> ELSE joined
             ended == IF relative # <<>> /\ trailing THEN relative \o <<Slash>> ELSE relative
         IN IF isAbsolute THEN <<Slash>> \o ended ELSE ended

\* A join that puts a slash between its arguments and normalizes nothing.
plainJoiner(a, b) == a \o <<Slash>> \o b

\* pathJoiner = R.curryN(2, path.join): the non-empty arguments joined by a slash,
\* then normalized.
pathJoiner(a, b) ==
    LET parts == SelectSeq(<<a, b>>, LAMBDA x : x # <<>>) IN
    IF parts = <<>> THEN <<".">> ELSE PathNormalize(JoinWith(parts, <<Slash>>))

\* An options object ({as}, or none of it); the keys it holds besides "kind".
Options(fields) == [kind |-> "options"] @@ fields

NoFields == [k \in {} |-> <<>>]

OwnFields(options) == [k \in DOMAIN options \ {"kind"} |-> options[k]]

\* An omit that drops nothing.
ROmitNothing(names, options) ==
    IF isNil(options) THEN Options(NoFields) ELSE options

\* R.omit(names, obj); of undefined it is {}.
ROmit(names, options) ==
    IF isNil(options) THEN Options(NoFields)
    ELSE [k \in DOMAIN options \ names |-> options[k]]

\* A merge that leaves an `as` key, the empty string, when there are no options.
mergeDefaultAlias(base, other) ==
    IF isNil(other) THEN base @@ [as |-> <<>>] ELSE OwnFields(other) @@ base

\* mergeIfPresent(base, other): R.merge(base, R.defaultTo({}, other)), the keys of
\* `other` winning.
mergeIfPresent(base, other) ==
    IF isNil(other) THEN base ELSE OwnFields(other) @@ base

\* route(httpMethod, endpointPath, require, handler, options)
Route(httpMethod, endpointPath, require, handler, options) ==
    mergeIfPresent(BaseRoute(httpMethod, endpointPath, require, handler), options)

get(endpointPath, require, handler, options) == Route("GET", endpointPath, require, handler, options)
post(endpointPath, require, handler, options) == Route("POST", endpointPath, require, handler, options)
patch(endpointPath, require, handler, options) == Route("PATCH", endpointPath, require, handler, options)
httpDelete(endpointPath, require, handler, options) == Route("DELETE", endpointPath, require, handler, options)
head(endpointPath, require, handler, options) == Route("HEAD", endpointPath, require, handler, options)
put(endpointPath, require, handler, options) == Route("PUT", endpointPath, require, handler, options)

\* R.replace(/\//g, '-')
SlashesToHyphens(s) == [i \in 1..Len(s) |-> IF s[i] = Slash THEN "-" ELSE s[i]]

\* R.replace(/(^-|-$)/, ''): without the g flag only the first match goes, the
\* leading hyphen if there is one, else the trailing one.
StripOneHyphen(s) ==
    IF s # <<>> /\ s[1] = "-" THEN Tail(s)
    ELSE IF s # <<>> /\ s[Len(s)] = "-" THEN SubSeq(s, 1, Len(s) - 1)
    ELSE s

\* R.either(R.prop('as'), R.prop('path'))(namespaceDefinition): `as` unless it is
\* missing or the empty string.
NamespaceAliasPrefix(ns) ==
    IF "as" \in DOMAIN ns /\ ns.as # <<>> THEN ns.as ELSE ns.path

applyNamespaceToRoute(ns, r) ==
    LET joined == [r EXCEPT !.require = pathJoiner(ns.require, r.require),
                            !.path = pathJoiner(ns.path, r.path)]
    IN IF RHasAs(joined)
       THEN [joined EXCEPT !.as =
                StripOneHyphen(SlashesToHyphens(pathJoiner(NamespaceAliasPrefix(ns), joined.as)))]
       ELSE joined

\* A namespace that maps one level only: a nested array is left as it is.
namespaceShallow(ns, tree) ==
    Arr([i \in 1..Len(tree.items) |->
           IF tree.items[i].kind = "array" THEN tree.items[i]
           ELSE applyNamespaceToRoute(ns, tree.items[i])])

\* namespace(namespaceDefinition, namespacedRoutes): R.map over the array, an
\* array-like element being mapped in turn.
RECURSIVE namespace(_, _)
namespace(ns, tree) ==
    Arr([i \in 1..Len(tree.items) |->
           IF tree.items[i].kind = "array" THEN namespace(ns, tree.items[i])
           ELSE applyNamespaceToRoute(ns, tree.items[i])])

\* pluralize(word) and pluralize(word, 1) of the `pluralize` package, for the regular
\* nouns of the model: a final "s" is added unless there is one, or dropped.
pluralize(word) ==
    IF word # <<>> /\ word[Len(word)] = "s" THEN word ELSE word \o <<"s">>

\* A singular that is the word as it is.
singularizeNothing(word) == word

singularize(word) ==
    IF word # <<>> /\ word[Len(word)] = "s" THEN SubSeq(word, 1, Len(word) - 1) ELSE word

\* R.propOr(resourceName, 'as', R.defaultTo({}, options))
resourcePath(resourceName, options) ==
    IF ~isNil(options) /\ "as" \in DOMAIN options THEN options.as ELSE resourceName

resourceIdPath(path) == pathJoiner(path, <<":", "i", "d">>)

create(resourceName, options) ==
    post(resourcePath(resourceName, options), resourceName, "create", ROmit({"as"}, options))

destroy(resourceName, options) ==
    httpDelete(resourceIdPath(resourcePath(resourceName, options)), resourceName, "destroy",
               ROmit({"as"}, options))

index(resourceName, options) ==
    LET merged == mergeIfPresent(Options([as |-> resourceName]), options)
        mergedOptions == [merged EXCEPT !.as = pluralize(merged.as)]
    IN get(resourcePath(resourceName, options), resourceName, "index", mergedOptions)

show(resourceName, options) ==
    LET merged == mergeIfPresent(Options([as |-> resourceName]), options)
        mergedOptions == [merged EXCEPT !.as = singularize(merged.as)]
    IN get(resourceIdPath(resourcePath(resourceName, options)), resourceName, "show", mergedOptions)

update(resourceName, options) ==
    patch(resourceIdPath(resourcePath(resourceName, options)), resourceName, "update",
          ROmit({"as"}, options))

\* DEFAULT_RESOURCES[type](resourceName, options)
DefaultResource(type, resourceName, options) ==
    CASE type = "create" -> create(resourceName, options)
      [] type = "destroy" -> destroy(resourceName, options)
      [] type = "index" -> index(resourceName, options)
      [] type = "show" -> show(resourceName, options)
      [] type = "update" -> update(resourceName, options)

DEFAULT_RESOURCES_KEYS == <<"create", "destroy", "index", "show", "update">>

\* The TypeError of a call of something that is no function.
NotAFunction == JsError("TypeError", "f.apply is not a function")

\* resources(name, options): R.pick(only) keeps, in the order of `only`, the types
\* that exist; R.omit(except) drops the excepted ones; each builder left is applied.
\* With an empty `only`, R.unless(R.isEmpty, R.pick)(only) is the array itself, which
\* R.pipe then calls as a function: a TypeError.
resources(name, options) ==
    LET only == IF ~isNil(options) /\ "only" \in DOMAIN options THEN options.only
                ELSE DEFAULT_RESOURCES_KEYS
        except == IF ~isNil(options) /\ "except" \in DOMAIN options THEN options.except ELSE <<>>
        argsToApply == ROmit({"only", "except"}, options)
        known == {DEFAULT_RESOURCES_KEYS[i] : i \in 1..Len(DEFAULT_RESOURCES_KEYS)}
        picked == PickKeys(only, [t \in known |-> t], <<>>)
        kept == SelectSeq(picked, LAMBDA t : \A i \in 1..Len(except) : except[i] # t)
    IN IF only = <<>> THEN Throw(NotAFunction)
       ELSE Return(Arr([i \in 1..Len(kept) |-> DefaultResource(kept[i], name, argsToApply)]))

-----------------------------------------------------------------------------
(* Module loading: safeRequireRouteModule, verifyHandlerExported, loadRoutes *)

MissingHandlerMessage == "Controller module missing the handler function"

\* R.is(Error, v): v is an Error or an instance of a subclass of it.
RIsError(v) == v.kind = "error"

\* R.has(handler, routeModule) of ramda 0.25 is hasOwnProperty.call(routeModule, handler):
\* only the module's own exports count, and null or undefined make it throw.
RHasHandler(handler, routeModule) ==
    IF isNil(routeModule) THEN Throw(TypeError)
    ELSE Return(routeModule.kind = "module" /\ handler \in routeModule.own)

\* verifyHandlerExported without the check: the module is returned as it is.
verifyNothing(handler, routeModule) ==
    IF isNil(routeModule) THEN Throw(TypeError) ELSE Return(routeModule)

\* R.ifElse(R.has(handler), R.identity, () => new Error(...))(routeModule)
verifyHandlerExported(handler, routeModule) ==
    LET has == RHasHandler(handler, routeModule) IN
    IF has.kind = "throw" THEN has
    ELSE IF has.value THEN Return(routeModule)
    ELSE Return(JsError("Error", MissingHandlerMessage))

\* R.pipe(moduleRequirer, verifyHandlerExported(route.handler))(route.require), where
\* the call of the injected loader returns or throws what `requirer` says.
RequireAndVerify(r, requirer) ==
    LET loaded == requirer[r.require] IN
    IF loaded.kind = "throw" THEN loaded
    ELSE verifyHandlerExported(r.handler, loaded.value)

\* R.tryCatch(tryer, catcher): what the tryer throws is handed to the catcher.
safeRequireRouteModule(r, requirer) ==
    LET tried == RequireAndVerify(r, requirer) IN
    IF tried.kind = "throw" THEN Return(Arr(<<r, tried.value>>))
    ELSE Return(Arr(<<r, tried.value>>))

\* R.flatten: every nested array is spliced in, to any depth.
RECURSIVE FlattenItems(_)
FlattenItems(items) ==
    IF items = <<>> THEN <<>>
    ELSE LET x == Head(items) IN
         (IF x.kind = "array" THEN FlattenItems(x.items) ELSE <<x>>) \o FlattenItems(Tail(items))

RFlatten(v) == Arr(FlattenItems(v.items))

\* The predicate without its R.not.
IsErrorTuple(tuple) == RIsError(RLast(tuple))

\* R.pipe(R.last, R.is(Error), R.not)
IsValidTuple(tuple) == ~RIsError(RLast(tuple))

\* R.partition(pred): [filter(pred, list), reject(pred, list)]
RECURSIVE FilterValid(_, _)
FilterValid(items, keep) ==
    IF items = <<>> THEN <<>>
    ELSE (IF IsValidTuple(Head(items)) = keep THEN <<Head(items)>> ELSE <<>>)
         \o FilterValid(Tail(items), keep)

RPartitionValid(v) == Arr(<<Arr(FilterValid(v.items, TRUE)), Arr(FilterValid(v.items, FALSE))>>)

\* R.map(safeModuleRequirer) over the flattened routes; `call` holds, for each route,
\* what the requirer returns or throws.  A throw ends the map.
MapRequirer(v, call) ==
    LET outs == [i \in 1..Len(v.items) |-> call[v.items[i]]]
        thrown == {i \in 1..Len(outs) : outs[i].kind = "throw"}
    IN IF thrown # {} THEN outs[Min(thrown)]
       ELSE Return(Arr([i \in 1..Len(outs) |-> outs[i].value]))

\* loadRoutes(routes, safeModuleRequirer)
loadRoutes(tree, call) ==
    LET mapped == MapRequirer(RFlatten(tree), call) IN
    IF mapped.kind = "throw" THEN mapped
    ELSE LET parts == RPartitionValid(mapped.value) IN
         Return([kind |-> "router", routes |-> RHead(parts), invalidRoutes |-> RLast(parts)])

\* The routes a tree holds, as a set.
RECURSIVE RoutesOf(_)
RoutesOf(v) ==
    IF v.kind = "array" THEN UNION {RoutesOf(v.items[i]) : i \in 1..Len(v.items)} ELSE {v}

\* The default safeModuleRequirer: safeRequireRouteModule with the injected loader
\* (R.map calls it with the route alone).
DefaultRequirer(tree, requirer) ==
    [r \in RoutesOf(tree) |-> safeRequireRouteModule(r, requirer)]

\* A stubbed safeModuleRequirer, as in the tests: it returns the tuple of the route and
\* whatever the stub holds for it.
StubRequirer(tree, requirer) ==
    [r \in RoutesOf(tree) |-> Return(Arr(<<r, requirer[r.require].value>>))]

-----------------------------------------------------------------------------
(* buildPathHelpers and resolve                                            *)

Str_undefined == <<"u", "n", "d", "e", "f", "i", "n", "e", "d">>

\* R.prop('as')(route) as R.indexBy uses it for a key: a missing property is
\* undefined, which as an object key is the string 'undefined'.
RPropAs(r) == IF RHasAs(r) THEN r.as ELSE Str_undefined

\* The pipeline without its filter: every route goes on to R.indexBy.
FilterNothing(rs) == rs

\* R.filter(R.has('as'))
FilterHasAs(rs) == SelectSeq(rs, RHasAs)

\* R.indexBy(R.prop('as')): one entry per alias, the last route of an alias
\* overwriting the earlier ones; the keys stay in the order they first came.
RECURSIVE AliasKeys(_, _)
AliasKeys(rs, acc) ==
    IF rs = <<>> THEN acc
    ELSE AliasKeys(Tail(rs),
                   IF \E i \in 1..Len(acc) : acc[i] = RPropAs(Head(rs)) THEN acc
                   ELSE Append(acc, RPropAs(Head(rs))))

\* An index-by that keeps the first route of an alias.
FirstWithAlias(rs, a) ==
    rs[CHOOSE i \in 1..Len(rs) : RPropAs(rs[i]) = a /\ \A j \in 1..(i - 1) : RPropAs(rs[j]) # a]

LastWithAlias(rs, a) ==
    rs[CHOOSE i \in 1..Len(rs) : RPropAs(rs[i]) = a /\ \A j \in (i + 1)..Len(rs) : RPropAs(rs[j]) # a]

\* buildPathHelpers(routes, pathBuilder): R.map(R.head) takes the route out of each
\* tuple, R.filter(R.has('as')) keeps the aliased ones, and after R.indexBy and
\* R.toPairs each pair is [alias, route]: R.adjust(pathBuilder, 1) hands the path
\* builder that route.
buildPathHelpersWith(tuples, pathBuilder) ==
    LET heads == [i \in 1..Len(tuples.items) |-> RHead(tuples.items[i])]
        aliased == FilterHasAs(heads)
        keys == AliasKeys(aliased, <<>>)
    IN OrderedObj(keys,
         [a \in {keys[i] : i \in 1..Len(keys)} |-> pathBuilder[LastWithAlias(aliased, a)]])

\* The routes of a list of tuples.
HeadsOf(tuples) == {RHead(tuples.items[i]) : i \in 1..Len(tuples.items)}

\* The default path builder, by the value it is called with.
DefaultPathBuilder(tuples) == [r \in HeadsOf(tuples) |-> routeModuleTupleToPathBuilder(r)]

\* buildPathHelpers(routes), the path builder being routeModuleTupleToPathBuilder
buildPathHelpers(tuples) == buildPathHelpersWith(tuples, DefaultPathBuilder(tuples))

\* resolve(routes), with the default loadRoutes and buildPathHelpers; R.pick keeps
\* routes and invalidRoutes, R.assoc adds paths.
resolve(tree, requirer) ==
    LET loadedRoutes == loadRoutes(tree, DefaultRequirer(tree, requirer)) IN
    IF loadedRoutes.kind = "throw" THEN loadedRoutes
    ELSE Return([kind |-> "router",
                 routes |-> loadedRoutes.value.routes,
                 invalidRoutes |-> loadedRoutes.value.invalidRoutes,
                 paths |-> buildPathHelpers(loadedRoutes.value.routes)])

\* The record as it is, nothing picked.
RKeepAll(names, loaded) == loaded

\* R.pick(['routes', 'invalidRoutes']) of what the route loader returned
RPickRouter(names, loaded) == [k \in DOMAIN loaded \cap ({"kind"} \cup names) |-> loaded[k]]

\* R.assoc('paths', cachedPaths)
RAssocPaths(cachedPaths, picked) == [paths |-> cachedPaths] @@ picked

\* A call of an injected function, as a jest mock records it.
Call(fn, arg) == [fn |-> fn, arg |-> arg]

\* resolve(routes, routeLoader, cachedPathsBuilder): the router it returns, and the
\* calls it made of the two injected functions, in order.
resolveWith(tree, routeLoader, cachedPathsBuilder) ==
    LET loadedRoutes == routeLoader[tree]
        cachedPaths == cachedPathsBuilder[loadedRoutes.routes]
    IN [kind |-> "return",
        value |-> RAssocPaths(cachedPaths, RPickRouter({"routes", "invalidRoutes"}, loadedRoutes)),
        calls |-> <<Call("routeLoader", tree), Call("cachedPathsBuilder", loadedRoutes.routes)>>]

-----------------------------------------------------------------------------
(* register and registerExpressRoute                                       *)

\* The function a module holds under a name, in its default export or among its
\* own exports.
ExportedFunction(slot, name) == [kind |-> "function", slot |-> slot, name |-> name]

\* R.path(['default', handler])(routeModule): undefined when a step is missing.
RPathDefault(handler, routeModule) ==
    IF routeModule.kind = "module" /\ handler \in routeModule.default
    THEN ExportedFunction("default", handler)
    ELSE Undefined

\* R.prop(handler)(routeModule) is routeModule[handler]: of null or undefined it throws.
RPropHandler(handler, routeModule) ==
    IF isNil(routeModule) THEN Throw(TypeError)
    ELSE IF routeModule.kind = "module" /\ handler \in routeModule.own
         THEN Return(ExportedFunction("own", handler))
         ELSE Return(Undefined)

\* R.either(R.path(['default', route.handler]), R.prop(route.handler))(routeModule)
ResolveHandler(handler, routeModule) ==
    LET first == RPathDefault(handler, routeModule) IN
    IF ~isNil(first) THEN Return(first) ELSE RPropHandler(handler, routeModule)

\* A lowering that gives `get` for every method.
RToLowerGet(httpMethod) == "get"

\* R.toLower(route.httpMethod)
RToLower(httpMethod) ==
    CASE httpMethod = "DELETE" -> "delete"
      [] httpMethod = "GET" -> "get"
      [] httpMethod = "HEAD" -> "head"
      [] httpMethod = "PATCH" -> "patch"
      [] httpMethod = "POST" -> "post"
      [] httpMethod = "PUT" -> "put"

\* app[member](path, handler), as the app records it
AppCall(member, path, handler) == [member |-> member, path |-> path, handler |-> handler]

\* console.warn(`Route ${route.path} handler ${route.handler} not found for module
\* ${route.require}`)
Warning(r) == [path |-> r.path, handler |-> r.handler, require |-> r.require]

\* A registrar that warns and still calls the app, with no handler.
registerAlways(appLog, consoleLog, tuple) ==
    LET r == tuple.items[1]
        routeModule == tuple.items[2]
        handler == ResolveHandler(r.handler, routeModule)
    IN IF handler.kind = "throw"
       THEN [kind |-> "throw", value |-> handler.value, app |-> appLog, console |-> consoleLog]
       ELSE [kind |-> "return", value |-> Arr(<<r, routeModule>>),
             app |-> Append(appLog, AppCall(RToLower(r.httpMethod), r.path, handler.value)),
             console |-> IF isNil(handler.value) THEN Append(consoleLog, Warning(r)) ELSE consoleLog]

\* registerExpressRoute(app, [route, routeModule]): what it returns (or throws), and
\* the app and the console after it.
registerExpressRoute(appLog, consoleLog, tuple) ==
    LET r == tuple.items[1]
        routeModule == tuple.items[2]
        handler == ResolveHandler(r.handler, routeModule)
    IN IF handler.kind = "throw"
       THEN [kind |-> "throw", value |-> handler.value, app |-> appLog, console |-> consoleLog]
       ELSE IF isNil(handler.value)
       THEN [kind |-> "return", value |-> Arr(<<r, routeModule>>),
             app |-> appLog, console |-> Append(consoleLog, Warning(r))]
       ELSE [kind |-> "return", value |-> Arr(<<r, routeModule>>),
             app |-> Append(appLog, AppCall(RToLower(r.httpMethod), r.path, handler.value)),
             console |-> consoleLog]

\* A map that goes over the tuples from the right.
RECURSIVE MapRegistrarFromRight(_, _, _, _)
MapRegistrarFromRight(tuples, done, appLog, consoleLog) ==
    IF tuples = <<>>
    THEN [kind |-> "return", value |-> Arr(done), app |-> appLog, console |-> consoleLog]
    ELSE LET one == registerExpressRoute(appLog, consoleLog, tuples[Len(tuples)]) IN
         IF one.kind = "throw" THEN one
         ELSE MapRegistrarFromRight(SubSeq(tuples, 1, Len(tuples) - 1), <<one.value>> \o done,
                                    one.app, one.console)

\* R.map(registerExpressRoute(app)) over the tuples, left to right; a throw ends it.
RECURSIVE MapRegistrar(_, _, _, _)
MapRegistrar(tuples, done, appLog, consoleLog) ==
    IF tuples = <<>>
    THEN [kind |-> "return", value |-> Arr(done), app |-> appLog, console |-> consoleLog]
    ELSE LET one == registerExpressRoute(appLog, consoleLog, Head(tuples)) IN
         IF one.kind = "throw" THEN one
         ELSE MapRegistrar(Tail(tuples), Append(done, one.value), one.app, one.console)

\* A lens that puts the mapped routes in place of the whole router.
ROverWhole(target, mapped) == [kind |-> "router", routes |-> mapped]

\* R.over(R.lensProp('routes'), fn, router): the router with its routes replaced.
ROverRoutes(target, mapped) == [target EXCEPT !.routes = mapped]

\* register(app, router), the registrar being registerExpressRoute
register(appLog, consoleLog, target) ==
    LET mapped == MapRegistrar(target.routes.items, <<>>, appLog, consoleLog) IN
    IF mapped.kind = "throw" THEN mapped
    ELSE [mapped EXCEPT !.value = ROverRoutes(target, mapped.value)]

\* register(app, router, expressRouteRegistrar) with a registrar of one's own, given
\* by the tuple it returns for each tuple
registerWith(target, registrar) ==
    ROverRoutes(target, Arr([i \in 1..Len(target.routes.items) |-> registrar[target.routes.items[i]]]))

\* The calls of a map that hands the index along, as Array.prototype.map does.
MapRequirerCallsIndexed(v, call) == [i \in 1..Len(v.items) |-> <<v.items[i], i - 1>>]

\* The calls R.map(safeModuleRequirer) makes over the flattened routes: one per
\* element, left to right, with the element alone, up to a call that throws.
MapRequirerCalls(v, call) ==
    LET thrown == {i \in 1..Len(v.items) : call[v.items[i]].kind = "throw"}
        last == IF thrown # {} THEN Min(thrown) ELSE Len(v.items)
    IN [i \in 1..last |-> <<v.items[i]>>]

\* The calls of the requirer that loadRoutes(routes, safeModuleRequirer) makes
loadRoutesCalls(tree, call) == MapRequirerCalls(RFlatten(tree), call)

-----------------------------------------------------------------------------
(* The calls of a path generator                                           *)

MaxSegments == 3

\* The path segments the generator is tried on: a literal, the empty segment (a
\* leading, trailing or doubled slash) and placeholders, one name a prefix of another.
GenSegments == {<<>>, <<"x">>, <<":", "a">>, <<":", "a", "b">>, <<":", "b">>}

GenPaths ==
    {JoinWith(segs, <<Slash>>) : segs \in UNION {[1..n -> GenSegments] : n \in 1..MaxSegments}}

\* The keys and values of the mappings given to the generator; "c" names no segment.
GenKeys == {<<"a">>, <<"a", "b">>, <<"b">>, <<"c">>}
GenValues == {<<"1">>, <<"y", "z">>}

GenProperties ==
    {Undefined, Null} \cup {Obj(m) : m \in UNION {[K -> GenValues] : K \in SUBSET GenKeys}}

InitGen ==
    /\ pc = "init"
    /\ route \in {BaseRoute("GET", p, <<"c">>, "one") : p \in GenPaths}
    /\ properties \in GenProperties
    /\ routes = Arr(<<>>)
    /\ moduleRequirer = <<>>
    /\ alias = <<>>
    /\ router = Undefined
    /\ args = <<>>
    /\ app = <<>>
    /\ console = <<>>
    /\ loads = <<>>
    /\ result = Undefined

\* routeModuleTupleToPathBuilder([route, {}])(properties); no argument is undefined.
CallPathBuilder ==
    /\ pc = "init"
    /\ pc' = "routeModuleTupleToPathBuilder"
    /\ result' = CallGenerator(routeModuleTupleToPathBuilder(Arr(<<route, Module({}, {})>>)), properties)
    /\ UNCHANGED <<routes, moduleRequirer, route, properties, alias, router, args, app, console, loads>>

NextGen == CallPathBuilder

SpecGen == InitGen /\ [][NextGen]_vars

\* The segments of a path that are placeholders, and their names.
IsPlaceholder(seg) == Len(seg) >= 2 /\ seg[1] = Colon /\ \A i \in 2..Len(seg) : seg[i] \in NameChars

PlaceholderNames(path) ==
    LET segs == Split(path) IN {Tail(segs[i]) : i \in {j \in 1..Len(segs) : IsPlaceholder(segs[j])}}

Called == pc = "routeModuleTupleToPathBuilder"

GivenMapping == properties.kind = "object" /\ properties.keys # <<>>

\* C7: for every route, placeholders in its path or not, the generator called with no
\* argument (undefined), null or an empty mapping returns route.path unchanged.
C7_EmptyArgumentsReturnPath ==
    (Called /\ (isNil(properties) \/ RIsEmpty(properties)))
        => (result.kind = "return" /\ result.value = route.path)

\* C8: with a non-empty mapping, the keys that name no placeholder of the path have no
\* effect on the result, and every placeholder no key is supplied for stays in place.
C8_OnlySuppliedPlaceholdersTouched ==
    (Called /\ GivenMapping) =>
        LET segs == Split(route.path)
            named == DOMAIN properties.map \cap PlaceholderNames(route.path)
            restricted == Obj([k \in named |-> properties.map[k]])
        IN /\ result.kind = "return"
           /\ result = CallGenerator(Generator(Arr(<<route>>)), restricted)
           /\ Len(Split(result.value)) = Len(segs)
           /\ \A i \in 1..Len(segs) :
                (IsPlaceholder(segs[i]) /\ Tail(segs[i]) \notin DOMAIN properties.map)
                    => Split(result.value)[i] = segs[i]

C8_Witness ==
    /\ Called /\ GivenMapping
    /\ route.path = <<"x", "/", ":", "a", "/", ":", "a", "b">>
    /\ DOMAIN properties.map = {<<"a">>, <<"c">>}
    /\ result.kind = "return"
    /\ result.value = <<"x", "/">> \o properties.map[<<"a">>] \o <<"/", ":", "a", "b">>

\* C9: substitution is anchored to whole segments: each segment of the result is the
\* segment of the path at the same place, or the value of a key k where that segment
\* is exactly :k; the separators are kept.
C9_WholeSegmentsOnly ==
    (Called /\ GivenMapping) =>
        LET segs == Split(route.path) IN
        /\ result.kind = "return"
        /\ Len(Split(result.value)) = Len(segs)
        /\ \A i \in 1..Len(segs) :
             \/ Split(result.value)[i] = segs[i]
             \/ \E k \in DOMAIN properties.map :
                  segs[i] = <<Colon>> \o k /\ Split(result.value)[i] = properties.map[k]

\* :ab with both a and ab supplied becomes the value of ab (and :a that of a).
C9_Witness ==
    /\ Called /\ GivenMapping
    /\ route.path = <<":", "a", "b", "/", "x", "/", ":", "a">>
    /\ {<<"a">>, <<"a", "b">>} \subseteq DOMAIN properties.map
    /\ properties.map[<<"a">>] # properties.map[<<"a", "b">>]
    /\ result.kind = "return"
    /\ result.value = properties.map[<<"a", "b">>] \o <<"/", "x", "/">> \o properties.map[<<"a">>]

\* C10: when the mapping supplies a value for every placeholder of the path, wherever
\* they stand, every placeholder is replaced by its value and none remains.
\* (Stated for the paths whose placeholders have pairwise different names.)
DistinctPlaceholders(path) ==
    LET segs == Split(path) IN
    \A i, j \in 1..Len(segs) : (IsPlaceholder(segs[i]) /\ i # j) => segs[i] # segs[j]

C10_AllPlaceholdersReplaced ==
    (/\ Called /\ GivenMapping /\ DistinctPlaceholders(route.path)
     /\ PlaceholderNames(route.path) \subseteq DOMAIN properties.map) =>
        LET segs == Split(route.path) IN
        /\ result.kind = "return"
        /\ Len(Split(result.value)) = Len(segs)
        /\ \A i \in 1..Len(segs) :
             Split(result.value)[i] =
                IF IsPlaceholder(segs[i]) THEN properties.map[Tail(segs[i])] ELSE segs[i]

-----------------------------------------------------------------------------
(* The calls of the module loader and of loadRoutes                        *)

MaxWidth == 2

\* Two routes of different controllers, both handled by the export `index`.
RouteOne == BaseRoute("GET", <<"o">>, <<"p">>, "index")
RouteTwo == BaseRoute("HEAD", <<"t">>, <<"q">>, "index")

LoadRouteSet == {RouteOne, RouteTwo}

RequirePaths == {r.require : r \in LoadRouteSet}

\* What a route tree holds: routes, and groups of routes (what `namespace` and
\* `resources` return), empty, nested and mixed with routes.
TreeElements ==
    { RouteOne, RouteTwo,
      Arr(<<>>),
      Arr(<<RouteTwo>>),
      Arr(<<RouteOne, RouteTwo>>),
      Arr(<<Arr(<<RouteTwo, RouteOne>>)>>),
      Arr(<<RouteOne, Arr(<<RouteTwo, Arr(<<RouteOne>>)>>)>>) }

\* Route trees: an array of at most MaxWidth such elements.
RouteTrees == {Arr(items) : items \in UNION {[1..n -> TreeElements] : n \in 0..MaxWidth}}

\* What the injected loader does for one require path: it returns a module (the
\* handler among its own exports, in its default export only, or nowhere), returns
\* null or undefined, throws an Error, or throws a value that is no Error.
LoaderOutcomes ==
    { Return(Module({"index"}, {})),
      Return(Module({"default"}, {"index"})),
      Return(Module({"other"}, {})),
      Return(Null),
      Return(Undefined),
      Throw(JsError("Error", "Cannot find module")),
      Throw([kind |-> "string", chars |-> "boom"]) }

InitLoad ==
    /\ pc = "init"
    /\ routes \in RouteTrees
    /\ moduleRequirer \in [RequirePaths -> LoaderOutcomes]
    /\ route = Undefined
    /\ properties = Undefined
    /\ alias = <<>>
    /\ router = Undefined
    /\ args = <<>>
    /\ app = <<>>
    /\ console = <<>>
    /\ loads = <<>>
    /\ result = Undefined

\* safeRequireRouteModule(route, moduleRequirer) on one route of the tree
CallSafeRequire ==
    /\ pc = "init"
    /\ \E r \in RoutesOf(routes) :
         /\ route' = r
         /\ result' = safeRequireRouteModule(r, moduleRequirer)
    /\ pc' = "safeRequireRouteModule"
    /\ UNCHANGED <<routes, moduleRequirer, properties, alias, router, args, app, console, loads>>

\* loadRoutes(routes), with the default safeRequireRouteModule
CallLoadRoutes ==
    /\ pc = "init"
    /\ result' = loadRoutes(routes, DefaultRequirer(routes, moduleRequirer))
    /\ pc' = "loadRoutes"
    /\ UNCHANGED <<routes, moduleRequirer, route, properties, alias, router, args, app, console, loads>>

\* loadRoutes(routes, safeRequire), with a stubbed requirer
CallLoadRoutesStub ==
    /\ pc = "init"
    /\ result' = loadRoutes(routes, StubRequirer(routes, moduleRequirer))
    /\ pc' = "loadRoutesStub"
    /\ UNCHANGED <<routes, moduleRequirer, route, properties, alias, router, args, app, console, loads>>

NextLoad == CallSafeRequire \/ CallLoadRoutes \/ CallLoadRoutesStub

SpecLoad == InitLoad /\ [][NextLoad]_vars

\* The leaves of a tree, left to right.
RECURSIVE Leaves(_)
Leaves(v) ==
    IF v.kind = "array" THEN Concat([i \in 1..Len(v.items) |-> Leaves(v.items[i])]) ELSE <<v>>

\* The tuple the requirer in use gives for each leaf, in the order of the leaves.
LeafTuples ==
    LET ls == Leaves(routes) IN
    [i \in 1..Len(ls) |->
        IF pc = "loadRoutesStub" THEN StubRequirer(routes, moduleRequirer)[ls[i]].value
        ELSE DefaultRequirer(routes, moduleRequirer)[ls[i]].value]

SecondIsError(tuple) == tuple.items[2].kind = "error"
SecondIsNoError(tuple) == tuple.items[2].kind # "error"

Loaded == pc \in {"loadRoutes", "loadRoutesStub"}

\* C2: loadRoutes returns {routes, invalidRoutes} where every leaf of the flattened
\* tree gives exactly one tuple, in routes iff its second element is no Error and in
\* invalidRoutes iff it is one, each list in the order of the flattened tree.
C2_PartitionInOrder ==
    Loaded =>
        /\ result.kind = "return"
        /\ result.value.routes.items = SelectSeq(LeafTuples, SecondIsNoError)
        /\ result.value.invalidRoutes.items = SelectSeq(LeafTuples, SecondIsError)

C2_Witness ==
    /\ pc = "loadRoutesStub"
    /\ \E i \in 1..Len(routes.items) : routes.items[i].kind = "array" /\ Len(routes.items[i].items) = 2
    /\ Len(Leaves(routes)) >= 3
    /\ result.kind = "return"
    /\ Len(result.value.routes.items) >= 1
    /\ Len(result.value.invalidRoutes.items) >= 2

Outcome(r) == moduleRequirer[r.require]

ThrownMessage(v) == IF v.kind = "error" THEN v.message ELSE v.chars

\* C3: safeRequireRouteModule never throws; it returns a 2-tuple of the route,
\* unchanged, and, when the loader threw, an Error carrying the exception's message.
C3_NeverThrowsLoadError ==
    pc = "safeRequireRouteModule" =>
        /\ result.kind = "return"
        /\ result.value.kind = "array"
        /\ Len(result.value.items) = 2
        /\ result.value.items[1] = route
        /\ Outcome(route).kind = "throw" =>
             /\ result.value.items[2].kind = "error"
             /\ result.value.items[2].message = ThrownMessage(Outcome(route).value)

\* The module the loader returned exports the handler, in its default export or
\* among its own exports.
ExportsHandler(r) ==
    /\ Outcome(r).kind = "return"
    /\ Outcome(r).value.kind = "module"
    /\ r.handler \in Outcome(r).value.default \cup Outcome(r).value.own

LacksHandler(r) ==
    /\ Outcome(r).kind = "return"
    /\ Outcome(r).value.kind = "module"
    /\ r.handler \notin Outcome(r).value.default \cup Outcome(r).value.own

InItems(tuple, arr) == \E i \in 1..Len(arr.items) : arr.items[i] = tuple

\* C4: whatever routes the loader fails on, loadRoutes completes; the routes it
\* fails on are in invalidRoutes and not in routes, the others are in routes with
\* their module.
C4_FailureIsolation ==
    pc = "loadRoutes" =>
        /\ result.kind = "return"
        /\ \A r \in RoutesOf(routes) :
             IF ExportsHandler(r)
             THEN /\ InItems(Arr(<<r, Outcome(r).value>>), result.value.routes)
                  /\ \A i \in 1..Len(result.value.invalidRoutes.items) :
                        result.value.invalidRoutes.items[i].items[1] # r
             ELSE /\ \E i \in 1..Len(result.value.invalidRoutes.items) :
                        result.value.invalidRoutes.items[i].items[1] = r
                  /\ \A i \in 1..Len(result.value.routes.items) :
                        result.value.routes.items[i].items[1] # r

\* C5: a module that loads and exports route.handler, in its default export or as a
\* top-level property, is accepted: the tuple holds the module, no Error.
C5_DefaultOrTopLevelAccepted ==
    (pc = "safeRequireRouteModule" /\ ExportsHandler(route)) =>
        /\ result.kind = "return"
        /\ result.value.items[2].kind = "module"
        /\ result.value.items[2] = Outcome(route).value

\* C6: a module that loads without exporting route.handler gives, as a returned
\* value, the tuple of the route and Error('Controller module missing the handler
\* function'); loadRoutes puts that route in invalidRoutes, where the message tells
\* it from the routes whose loader threw.
C6_MissingHandlerError ==
    /\ (pc = "safeRequireRouteModule" /\ LacksHandler(route)) =>
          /\ result.kind = "return"
          /\ result.value.items[1] = route
          /\ result.value.items[2] = JsError("Error", MissingHandlerMessage)
    /\ pc = "loadRoutes" =>
          /\ result.kind = "return"
          /\ \A r \in RoutesOf(routes) :
               LacksHandler(r) =>
                 /\ InItems(Arr(<<r, JsError("Error", MissingHandlerMessage)>>), result.value.invalidRoutes)
                 /\ \A i \in 1..Len(result.value.routes.items) :
                       result.value.routes.items[i].items[1] # r
          /\ \A i \in 1..Len(result.value.invalidRoutes.items) :
               LET t == result.value.invalidRoutes.items[i] IN
               Outcome(t.items[1]).kind = "throw" => t.items[2].message # MissingHandlerMessage

C6_Witness ==
    /\ pc = "loadRoutes"
    /\ result.kind = "return"
    /\ \E r1, r2 \in RoutesOf(routes) :
         /\ LacksHandler(r1)
         /\ Outcome(r2) = Throw(JsError("Error", "Cannot find module"))
         /\ InItems(Arr(<<r1, JsError("Error", MissingHandlerMessage)>>), result.value.invalidRoutes)
         /\ InItems(Arr(<<r2, JsError("Error", "Cannot find module")>>), result.value.invalidRoutes)

-----------------------------------------------------------------------------
(* Resolving a route table written with the DSL, and calling its helpers   *)

Str_api_v1 == <<"a", "p", "i", "/", "v", "1">>
Str_ctrl == <<"/", "c", "t", "r", "l">>
Str_users == <<"u", "s", "e", "r", "s">>
Str_home == <<"h", "o", "m", "e">>
Str_id == <<"i", "d">>

\* namespace definitions: {path, require} and {path, require, as}
E2ENamespaces ==
    { [path |-> Str_api_v1, require |-> Str_ctrl],
      [path |-> <<Slash>>, require |-> Str_ctrl],
      [path |-> Str_api_v1, require |-> Str_ctrl, as |-> <<"v">>] }

E2ENames == {Str_users, <<"p", "o", "s", "t">>}

\* the options given to `resources`
E2EOptions ==
    { Undefined,
      Options([only |-> <<"index", "show">>]),
      Options([only |-> <<"show">>]),
      Options([except |-> <<"index">>]) }

\* namespace(ns, [get('/', 'home', 'root'), resources(name, options)])
E2ETree(ns, name, options) ==
    namespace(ns, Arr(<<get(<<Slash>>, Str_home, "root", Undefined), resources(name, options).value>>))

AllHandlers == Module({"root", "create", "destroy", "index", "show", "update"}, {})

NotFound == JsError("Error", "Cannot find module")

E2EProperties == {Undefined, Obj(EmptyMap), Obj([k \in {Str_id} |-> <<"5">>])}

InitE2E ==
    /\ pc = "init"
    /\ routes \in {E2ETree(ns, name, options) :
                      ns \in E2ENamespaces, name \in E2ENames, options \in E2EOptions}
    /\ moduleRequirer \in [{r.require : r \in RoutesOf(routes)} -> {Return(AllHandlers), Throw(NotFound)}]
    /\ route = Undefined
    /\ properties = Undefined
    /\ alias = <<>>
    /\ router = Undefined
    /\ args = <<>>
    /\ app = <<>>
    /\ console = <<>>
    /\ loads = <<>>
    /\ result = Undefined

\* resolve(routes)
CallResolve ==
    /\ pc = "init"
    /\ result' = resolve(routes, moduleRequirer)
    /\ router' = IF result'.kind = "return" THEN result'.value ELSE Undefined
    /\ pc' = "resolve"
    /\ UNCHANGED <<routes, moduleRequirer, route, properties, alias, args, app, console, loads>>

\* router.paths[alias](properties)
CallPathHelper ==
    /\ pc = "resolve"
    /\ router.kind = "router"
    /\ \E a \in DOMAIN router.paths.map, props \in E2EProperties :
         /\ alias' = a
         /\ properties' = props
         /\ result' = CallGenerator(router.paths.map[a], props)
    /\ pc' = "pathHelper"
    /\ UNCHANGED <<routes, moduleRequirer, route, router, args, app, console, loads>>

NextE2E == CallResolve \/ CallPathHelper

SpecE2E == InitE2E /\ [][NextE2E]_vars

AllModulesLoad == \A p \in DOMAIN moduleRequirer : moduleRequirer[p].kind = "return"

C1Tree ==
    E2ETree([path |-> Str_api_v1, require |-> Str_ctrl], Str_users,
            Options([only |-> <<"index", "show">>]))

Str_api_v1_users == <<"a", "p", "i", "-", "v", "1", "-", "u", "s", "e", "r", "s">>
Str_api_v1_user == <<"a", "p", "i", "-", "v", "1", "-", "u", "s", "e", "r">>

\* C1: resolving namespace({path: 'api/v1', require: '/ctrl'}, [get('/', 'home',
\* 'root'), resources('users', {only: ['index', 'show']})]) with a loader that
\* succeeds for every route gives paths where paths['api-v1-users']() returns
\* 'api/v1/users' and paths['api-v1-user']({id: '5'}) returns 'api/v1/users/5'.
C1_EndToEndPaths ==
    (routes = C1Tree /\ AllModulesLoad) =>
        /\ pc = "resolve" =>
             /\ result.kind = "return"
             /\ {Str_api_v1_users, Str_api_v1_user} \subseteq DOMAIN result.value.paths.map
        /\ (pc = "pathHelper" /\ alias = Str_api_v1_users /\ properties = Undefined) =>
             /\ result.kind = "return"
             /\ result.value = Str_api_v1 \o <<Slash>> \o Str_users
        /\ (pc = "pathHelper" /\ alias = Str_api_v1_user /\ properties = Obj([k \in {Str_id} |-> <<"5">>])) =>
             /\ result.kind = "return"
             /\ result.value = Str_api_v1 \o <<Slash>> \o Str_users \o <<Slash, "5">>

-----------------------------------------------------------------------------
(* buildPathHelpers over tuples, and resolve with an injected route loader *)

MaxTuples == 3

\* Routes without an alias, with an alias of their own, and two with one alias.
HelperRouteOne == BaseRoute("GET", <<"o">>, <<"h">>, "one")
HelperRouteTwo == [as |-> <<"t", "w", "o">>] @@ BaseRoute("GET", <<"t">>, <<"h">>, "two")
HelperRouteTwoAgain == [as |-> <<"t", "w", "o">>] @@ BaseRoute("POST", <<"u">>, <<"h">>, "again")
HelperRouteThree == [as |-> <<"t", "h", "r", "e", "e">>] @@ BaseRoute("GET", <<"e">>, <<"h">>, "three")

HelperTuples ==
    {Arr(<<r, Module({r.handler}, {})>>) :
        r \in {HelperRouteOne, HelperRouteTwo, HelperRouteTwoAgain, HelperRouteThree}}

HelperTupleLists ==
    {Arr(items) : items \in UNION {[1..n -> HelperTuples] : n \in 0..MaxTuples}}

\* jest.fn() with a return value per call: the bound path builder it gives is
\* marked with the argument of the call.
MockPathBuilder(tuples) ==
    [r \in HeadsOf(tuples) |-> [kind |-> "function", bound |-> r, mock |-> TRUE]]

\* What a stubbed routeLoader returns: the first k tuples as routes, the rest as
\* invalidRoutes (unless it leaves them out), and maybe a property of its own.
LoaderResult(tuples, k, withInvalid, withExtra) ==
    [kind |-> "router", routes |-> Arr(SubSeq(tuples.items, 1, k))]
    @@ (IF withInvalid
        THEN [invalidRoutes |-> Arr(SubSeq(tuples.items, k + 1, Len(tuples.items)))]
        ELSE [x \in {} |-> <<>>])
    @@ (IF withExtra THEN [cache |-> <<"c">>] ELSE [x \in {} |-> <<>>])

\* The route tree the tuples came from.
TreeOfTuples(tuples) == Arr([i \in 1..Len(tuples.items) |-> RHead(tuples.items[i])])

InitHelpers ==
    /\ pc = "init"
    /\ routes \in HelperTupleLists
    /\ moduleRequirer = EmptyMap
    /\ route = Undefined
    /\ properties = Undefined
    /\ alias = <<>>
    /\ router = Undefined
    /\ args = <<>>
    /\ app = <<>>
    /\ console = <<>>
    /\ loads = <<>>
    /\ result = Undefined

\* buildPathHelpers(tuples)
CallBuildPathHelpers ==
    /\ pc = "init"
    /\ result' = Return(buildPathHelpers(routes))
    /\ pc' = "buildPathHelpers"
    /\ UNCHANGED <<routes, moduleRequirer, route, properties, alias, router, args, app, console, loads>>

\* buildPathHelpers(tuples, pathBuilder) with a mocked path builder
CallBuildPathHelpersMock ==
    /\ pc = "init"
    /\ result' = Return(buildPathHelpersWith(routes, MockPathBuilder(routes)))
    /\ pc' = "buildPathHelpersMock"
    /\ UNCHANGED <<routes, moduleRequirer, route, properties, alias, router, args, app, console, loads>>

\* resolve(tree, routeLoader, buildPathHelpers) with a stubbed routeLoader; `router`
\* holds what the stub returns.
CallResolveWith ==
    /\ pc = "init"
    /\ \E k \in 0..Len(routes.items), withInvalid \in BOOLEAN, withExtra \in BOOLEAN :
         /\ router' = LoaderResult(routes, k, withInvalid, withExtra)
         /\ result' = resolveWith(TreeOfTuples(routes),
                                   [t \in {TreeOfTuples(routes)} |-> router'],
                                   [rs \in {router'.routes} |-> buildPathHelpers(rs)])
    /\ pc' = "resolveWith"
    /\ UNCHANGED <<routes, moduleRequirer, route, properties, alias, args, app, console, loads>>

NextHelpers == CallBuildPathHelpers \/ CallBuildPathHelpersMock \/ CallResolveWith

SpecHelpers == InitHelpers /\ [][NextHelpers]_vars

BuiltHelpers == pc \in {"buildPathHelpers", "buildPathHelpersMock"}

\* The aliases the routes of a list of tuples carry.
AliasesOf(tuples) ==
    {tuples.items[i].items[1].as :
        i \in {j \in 1..Len(tuples.items) : "as" \in DOMAIN tuples.items[j].items[1]}}

KeySet(obj) == {obj.keys[i] : i \in 1..Len(obj.keys)}

\* C11: the table buildPathHelpers returns has exactly the aliases of the tuples'
\* routes as its keys: one path helper under each alias, and no entry for a route
\* without an alias.
C11_KeysAreAliases ==
    BuiltHelpers =>
        /\ KeySet(result.value) = AliasesOf(routes)
        /\ DOMAIN result.value.map = AliasesOf(routes)
        /\ \A a \in AliasesOf(routes) : result.value.map[a].kind = "function"

C11_Witness ==
    /\ BuiltHelpers
    /\ \E i, j \in 1..Len(routes.items) :
         /\ "as" \notin DOMAIN routes.items[i].items[1]
         /\ "as" \in DOMAIN routes.items[j].items[1]
    /\ result.value.keys # <<>>

\* The position of the last tuple whose route carries the alias.
LastPosition(tuples, a) ==
    CHOOSE i \in 1..Len(tuples.items) :
        /\ "as" \in DOMAIN tuples.items[i].items[1]
        /\ tuples.items[i].items[1].as = a
        /\ \A j \in (i + 1)..Len(tuples.items) :
             "as" \in DOMAIN tuples.items[j].items[1] => tuples.items[j].items[1].as # a

\* C12: when several tuples carry one alias, the table has one entry for it, and
\* that entry is the generator the path builder gave for the last of these tuples
\* (the builder is handed that tuple's route).
C12_LastAliasWins ==
    BuiltHelpers =>
        \A a \in AliasesOf(routes) :
            /\ Cardinality({i \in 1..Len(result.value.keys) : result.value.keys[i] = a}) = 1
            /\ result.value.map[a].bound = routes.items[LastPosition(routes, a)].items[1]

C12_Witness ==
    /\ BuiltHelpers
    /\ \E i, j \in 1..Len(routes.items) :
         /\ i < j
         /\ routes.items[i].items[1] = HelperRouteTwoAgain
         /\ routes.items[j].items[1] = HelperRouteTwo
         /\ \A k \in (j + 1)..Len(routes.items) : routes.items[k].items[1] # HelperRouteTwoAgain
    /\ result.value.map[<<"t", "w", "o">>].bound = HelperRouteTwo

\* C13: resolve calls the route loader once, with the tree; it builds paths from the
\* loader's routes alone, so that no entry comes from a tuple of invalidRoutes; and
\* the record it returns holds routes and invalidRoutes as the loader returned them,
\* the new paths, and nothing else the loader returned.
C13_ResolveKeepsRoutesAndPaths ==
    pc = "resolveWith" =>
        /\ SelectSeq(result.calls, LAMBDA c : c.fn = "routeLoader")
             = <<Call("routeLoader", TreeOfTuples(routes))>>
        /\ DOMAIN result.value = {"kind", "routes", "paths"} \cup (DOMAIN router \cap {"invalidRoutes"})
        /\ result.value.routes = router.routes
        /\ "invalidRoutes" \in DOMAIN router => result.value.invalidRoutes = router.invalidRoutes
        /\ KeySet(result.value.paths) = AliasesOf(router.routes)
        /\ \A a \in KeySet(result.value.paths) :
             \E i \in 1..Len(router.routes.items) :
                 result.value.paths.map[a].bound = router.routes.items[i].items[1]

C13_Witness ==
    /\ pc = "resolveWith"
    /\ "cache" \in DOMAIN router
    /\ "invalidRoutes" \in DOMAIN router
    /\ AliasesOf(router.routes) # {}
    /\ AliasesOf(router.invalidRoutes) \ AliasesOf(router.routes) # {}
    /\ "cache" \notin DOMAIN result.value

-----------------------------------------------------------------------------
(* The calls of the DSL: applyNamespaceToRoute, namespace, resources, route *)

Str_a_v == <<"a", "/", "v">>
Str_u == <<"u">>
Str_h == <<"h">>

\* namespace definitions: a relative path, the root, a path with a slash at both
\* ends, a path whose first segment is a hyphen; with and without an alias
DslNamespaces ==
    {[path |-> p, require |-> q] : p \in {Str_a_v, <<Slash>>, <<Slash, "a", Slash>>, <<Slash, "-">>},
                                   q \in {Str_ctrl, <<"s">>}}
    \cup {[path |-> Str_a_v, require |-> Str_ctrl, as |-> a] : a \in {<<"f", "-", "b">>, <<Slash, "f">>}}

\* routes as the verb functions build them, with and without an alias
DslRoutes ==
    {get(p, q, "index", o) :
        p \in {<<Slash>>, Str_u, <<Slash, "u", Slash, ":", "i", "d">>},
        q \in {Str_h, Str_u},
        o \in {Undefined, Options([as |-> Str_u]), Options([as |-> <<"u", Slash>>]),
               Options([as |-> <<"a", Slash, "b">>])}}
    \cup {httpDelete(<<Slash, "x">>, Str_h, "destroyEverything", Undefined)}

DslLeafOne == get(<<Slash>>, Str_h, "root", Undefined)
DslLeafTwo == get(Str_u, Str_u, "index", Options([as |-> Str_u]))
DslLeafThree == httpDelete(<<Slash, "x">>, Str_h, "destroyEverything", Undefined)

\* route trees: flat, nested, nested twice, with empty arrays
DslTrees ==
    { Arr(<<>>),
      Arr(<<DslLeafOne>>),
      Arr(<<DslLeafOne, Arr(<<DslLeafTwo, DslLeafThree>>)>>),
      Arr(<<Arr(<<Arr(<<DslLeafTwo>>)>>), DslLeafOne>>),
      Arr(<<DslLeafOne, Arr(<<>>), Arr(<<DslLeafTwo, Arr(<<DslLeafThree, DslLeafOne>>)>>)>>),
      Arr(<<Arr(<<DslLeafThree>>), Arr(<<DslLeafThree>>), DslLeafTwo>>) }

InitDsl ==
    /\ pc = "init"
    /\ routes = Arr(<<>>)
    /\ moduleRequirer = EmptyMap
    /\ route = Undefined
    /\ properties = Undefined
    /\ alias = <<>>
    /\ router = Undefined
    /\ args = <<>>
    /\ app = <<>>
    /\ console = <<>>
    /\ loads = <<>>
    /\ result = Undefined

\* applyNamespaceToRoute(namespaceDefinition, namespacedRoute)
CallApplyNamespaceToRoute ==
    /\ pc = "init"
    /\ \E ns \in DslNamespaces, r \in DslRoutes :
         /\ args' = <<ns, r>>
         /\ result' = Return(applyNamespaceToRoute(ns, r))
    /\ pc' = "applyNamespaceToRoute"
    /\ UNCHANGED <<routes, moduleRequirer, route, properties, alias, router, app, console, loads>>

\* namespace(namespaceDefinition, namespacedRoutes)
CallNamespace ==
    /\ pc = "init"
    /\ \E ns \in DslNamespaces, tree \in DslTrees :
         /\ args' = <<ns, tree>>
         /\ result' = Return(namespace(ns, tree))
    /\ pc' = "namespace"
    /\ UNCHANGED <<routes, moduleRequirer, route, properties, alias, router, app, console, loads>>

MaxListed == 2

ResourceTypes == {DEFAULT_RESOURCES_KEYS[i] : i \in 1..Len(DEFAULT_RESOURCES_KEYS)}

\* the lists an `only` or an `except` option can hold
TypeLists == UNION {[1..n -> ResourceTypes] : n \in 0..MaxListed}

Str_post == <<"p", "o", "s", "t">>
Str_friends == <<"f", "r", "i", "e", "n", "d", "s">>

DslNames == {Str_users, Str_post}

OptionalField(name, values) ==
    {[x \in {} |-> <<>>]} \cup {[k \in {name} |-> v] : v \in values}

\* the options given to `resources`: absent, null, or any of only, except and as
DslResourcesOptions ==
    {Undefined, Null}
    \cup {Options(o @@ e @@ a) :
            o \in OptionalField("only", TypeLists),
            e \in OptionalField("except", TypeLists),
            a \in OptionalField("as", {Str_friends})}

\* the options given to a verb function or a resource builder
DslRouteOptions ==
    {Undefined, Null, Options(NoFields), Options([as |-> Str_friends]),
     Options([as |-> <<"a", Slash, "p">>])}

\* resources(name, options)
CallResources ==
    /\ pc = "init"
    /\ \E name \in DslNames, options \in DslResourcesOptions :
         /\ args' = <<name, options>>
         /\ result' = resources(name, options)
    /\ pc' = "resources"
    /\ UNCHANGED <<routes, moduleRequirer, route, properties, alias, router, app, console, loads>>

\* DEFAULT_RESOURCES[type](resourceName, options)
CallDefaultResource ==
    /\ pc = "init"
    /\ \E type \in ResourceTypes, name \in DslNames, options \in DslRouteOptions :
         /\ args' = <<name, options, type>>
         /\ result' = Return(Arr(<<DefaultResource(type, name, options)>>))
    /\ pc' = "DEFAULT_RESOURCES"
    /\ UNCHANGED <<routes, moduleRequirer, route, properties, alias, router, app, console, loads>>

HTTPMethod == {"DELETE", "GET", "HEAD", "PATCH", "POST", "PUT"}

\* route(httpMethod, ...), or the verb function that has the method bound
VerbCall(fn, httpMethod, endpointPath, require, handler, options) ==
    CASE fn = "route" -> Route(httpMethod, endpointPath, require, handler, options)
      [] fn = "destroy" -> httpDelete(endpointPath, require, handler, options)
      [] fn = "get" -> get(endpointPath, require, handler, options)
      [] fn = "head" -> head(endpointPath, require, handler, options)
      [] fn = "patch" -> patch(endpointPath, require, handler, options)
      [] fn = "post" -> post(endpointPath, require, handler, options)
      [] fn = "put" -> put(endpointPath, require, handler, options)

\* route(httpMethod, endpointPath, require, handler, options), get(...), ...
CallRoute ==
    /\ pc = "init"
    /\ \E fn \in {"route", "destroy", "get", "head", "patch", "post", "put"},
          httpMethod \in HTTPMethod,
          endpointPath \in {<<"f", "o", "o">>, <<Slash>>},
          options \in DslRouteOptions :
         /\ fn # "route" => httpMethod = "GET"
         /\ args' = <<fn, httpMethod, endpointPath, <<"b", "a", "r">>, "baz", options>>
         /\ result' = Return(VerbCall(fn, httpMethod, endpointPath, <<"b", "a", "r">>, "baz", options))
    /\ pc' = "route"
    /\ UNCHANGED <<routes, moduleRequirer, route, properties, alias, router, app, console, loads>>

\* namespace(outer, [namespace(inner, [route])])
CallNestedNamespace ==
    /\ pc = "init"
    /\ \E outer \in DslNamespaces, inner \in DslNamespaces, r \in DslRoutes :
         /\ args' = <<outer, inner, r>>
         /\ result' = Return(namespace(outer, Arr(<<namespace(inner, Arr(<<r>>))>>)))
    /\ pc' = "nestedNamespace"
    /\ UNCHANGED <<routes, moduleRequirer, route, properties, alias, router, app, console, loads>>

NextDsl ==
    \/ CallNestedNamespace
    \/ CallApplyNamespaceToRoute
    \/ CallNamespace
    \/ CallResources
    \/ CallDefaultResource
    \/ CallRoute

SpecDsl == InitDsl /\ [][NextDsl]_vars

\* All the hyphens at both ends of a string taken off.
RECURSIVE TrimHyphens(_)
TrimHyphens(s) ==
    IF s # <<>> /\ s[1] = "-" THEN TrimHyphens(Tail(s))
    ELSE IF s # <<>> /\ s[Len(s)] = "-" THEN TrimHyphens(SubSeq(s, 1, Len(s) - 1))
    ELSE s

\* C14: for a namespace definition N and a route R with an alias,
\* applyNamespaceToRoute(N, R).as is join(N.as if N has one, else N.path; R.as) with
\* every slash made a hyphen and no hyphen left at its start or its end.
C14_AliasIsSlug ==
    (pc = "applyNamespaceToRoute" /\ "as" \in DOMAIN args[2]) =>
        LET N == args[1]
            R == args[2]
            prefix == IF "as" \in DOMAIN N THEN N.as ELSE N.path
            joined == pathJoiner(prefix, R.as)
            slug == result.value.as
        IN /\ slug = TrimHyphens(SlashesToHyphens(joined))
           /\ slug # <<>> => (slug[1] # "-" /\ slug[Len(slug)] # "-")
           /\ \A i \in 1..Len(slug) : slug[i] # Slash

\* The segments of a path that are not empty.
Segments(p) == SelectSeq(Split(p), LAMBDA seg : seg # <<>>)

NoDoubledSlash(p) == \A i \in 1..(Len(p) - 1) : ~(p[i] = Slash /\ p[i + 1] = Slash)

\* `out` is the path-segment join of a and b: the segments of a, then those of b,
\* one slash between two segments, the root kept.
IsJoin(a, b, out) ==
    /\ Segments(out) = Segments(a) \o Segments(b)
    /\ NoDoubledSlash(out)
    /\ (out[1] = Slash) <=> ((a \o b)[1] = Slash)

\* C15: applyNamespaceToRoute(N, R) has require = join(N.require, R.require) and
\* path = join(N.path, R.path), joined segment by segment with no doubled slash;
\* handler and httpMethod are those of R, and a route without an alias gets none.
C15_RequireAndPathJoined ==
    pc = "applyNamespaceToRoute" =>
        LET N == args[1]
            R == args[2]
            out == result.value
        IN /\ IsJoin(N.require, R.require, out.require)
           /\ IsJoin(N.path, R.path, out.path)
           /\ out.handler = R.handler
           /\ out.httpMethod = R.httpMethod
           /\ DOMAIN out = DOMAIN R

C15_Witness ==
    /\ pc = "applyNamespaceToRoute"
    /\ "as" \notin DOMAIN args[2]
    /\ args[1].path = <<Slash, "a", Slash>>
    /\ args[2].path = <<Slash, "x">>
    /\ result.value.path = <<Slash, "a", Slash, "x">>
    /\ "as" \notin DOMAIN result.value

\* The nesting of a tree: an array of the shapes of its elements, a leaf being
\* just a leaf.
RECURSIVE Shape(_)
Shape(v) ==
    IF v.kind = "array" THEN Arr([i \in 1..Len(v.items) |-> Shape(v.items[i])])
    ELSE [kind |-> "leaf"]

\* C16: namespace(N, tree) has the nesting of the tree, with every leaf route, at any
\* depth and in its place, replaced by applyNamespaceToRoute(N, leaf).
C16_NamespaceKeepsShape ==
    pc = "namespace" =>
        LET N == args[1]
            tree == args[2]
            leaves == Leaves(tree)
        IN /\ Shape(result.value) = Shape(tree)
           /\ Leaves(result.value) = [i \in 1..Len(leaves) |-> applyNamespaceToRoute(N, leaves[i])]

C16_Witness ==
    /\ pc = "namespace"
    /\ args[2] = Arr(<<DslLeafOne, Arr(<<>>), Arr(<<DslLeafTwo, Arr(<<DslLeafThree, DslLeafOne>>)>>)>>)
    /\ args[1].path = Str_a_v
    /\ result.value.items[3].items[2].items[1].path = <<"a", Slash, "v", Slash, "x">>

Str_id_segment == <<Slash, ":", "i", "d">>

\* The plural and the singular of the names in use, as English has them.
PluralOf(name) == IF name = Str_post THEN <<"p", "o", "s", "t", "s">> ELSE name
SingularOf(name) ==
    CASE name = Str_users -> <<"u", "s", "e", "r">>
      [] name = Str_friends -> <<"f", "r", "i", "e", "n", "d">>
      [] OTHER -> name

RouteSet(arr) == {arr.items[i] : i \in 1..Len(arr.items)}

\* C17: resources(name) without options gives five routes, one per handler:
\* create = POST name, destroy = DELETE name/:id, index = GET name with the plural of
\* the name as alias, show = GET name/:id with the singular as alias, update = PATCH
\* name/:id, all with require = name.
C17_FiveCanonicalRoutes ==
    (pc = "resources" /\ args[2] = Undefined) =>
        LET name == args[1] IN
        /\ result.kind = "return"
        /\ Len(result.value.items) = 5
        /\ RouteSet(result.value) =
             { BaseRoute("POST", name, name, "create"),
               BaseRoute("DELETE", name \o Str_id_segment, name, "destroy"),
               [as |-> PluralOf(name)] @@ BaseRoute("GET", name, name, "index"),
               [as |-> SingularOf(name)] @@ BaseRoute("GET", name \o Str_id_segment, name, "show"),
               BaseRoute("PATCH", name \o Str_id_segment, name, "update") }

C17_Witness ==
    /\ pc = "resources"
    /\ args = <<Str_users, Undefined>>
    /\ result.kind = "return"
    /\ \E i \in 1..5 : result.value.items[i].handler = "show" /\ result.value.items[i].as = <<"u", "s", "e", "r">>

ListSet(list) == {list[i] : i \in 1..Len(list)}

\* The types `only` names (all five when it is not given), less those of `except`.
SelectedTypes(options) ==
    (IF ~isNil(options) /\ "only" \in DOMAIN options THEN ListSet(options.only) ELSE ResourceTypes)
    \ (IF ~isNil(options) /\ "except" \in DOMAIN options THEN ListSet(options.except) ELSE {})

\* C18: for every `only` and `except` (absent, empty or not), resources(name, options)
\* returns one route for each type of only less except (all five less except when
\* there is no `only`), and the empty list when no type is left.
C18_OnlyLessExcept ==
    pc = "resources" =>
        /\ result.kind = "return"
        /\ Len(result.value.items) = Cardinality(SelectedTypes(args[2]))
        /\ {r.handler : r \in RouteSet(result.value)} = SelectedTypes(args[2])

\* C19: the create, update and destroy routes never have an `as` key, whatever the
\* options; with options.as = A the path of every route is A or A/:id, and require
\* stays the resource name.
C19_NoAliasOnWrites ==
    (pc \in {"resources", "DEFAULT_RESOURCES"} /\ result.kind = "return") =>
        \A r \in RouteSet(result.value) :
            /\ r.handler \in {"create", "update", "destroy"} => "as" \notin DOMAIN r
            /\ r.require = args[1]
            /\ (~isNil(args[2]) /\ "as" \in DOMAIN args[2]) =>
                  r.path = IF r.handler \in {"create", "index"} THEN args[2].as
                           ELSE args[2].as \o Str_id_segment

C19_Witness ==
    /\ pc = "DEFAULT_RESOURCES"
    /\ args = <<Str_users, Options([as |-> <<"a", Slash, "p">>]), "destroy">>
    /\ result.value.items[1].path = <<"a", Slash, "p">> \o Str_id_segment
    /\ "as" \notin DOMAIN result.value.items[1]

BoundMethod(fn, httpMethod) ==
    CASE fn = "route" -> httpMethod
      [] fn = "destroy" -> "DELETE"
      [] fn = "get" -> "GET"
      [] fn = "head" -> "HEAD"
      [] fn = "patch" -> "PATCH"
      [] fn = "post" -> "POST"
      [] fn = "put" -> "PUT"

\* C20: route and get / post / put / patch / head / destroy return a record whose
\* httpMethod, path, require and handler are the arguments (destroy binds DELETE);
\* it has an `as` key only when the options are not null and hold one, and with
\* absent, null or undefined options it has these four keys alone.
C20_RouteRecord ==
    pc = "route" =>
        LET options == args[6]
            supplied == ~isNil(options) /\ "as" \in DOMAIN options
            out == result.value
        IN /\ out.httpMethod = BoundMethod(args[1], args[2])
           /\ out.path = args[3]
           /\ out.require = args[4]
           /\ out.handler = args[5]
           /\ DOMAIN out \ {"kind"} =
                {"httpMethod", "path", "require", "handler"} \cup (IF supplied THEN {"as"} ELSE {})
           /\ supplied => out.as = options.as

C20_Witness ==
    /\ pc = "route"
    /\ args[1] = "destroy"
    /\ args[6] = Null
    /\ result.value.httpMethod = "DELETE"
    /\ DOMAIN result.value \ {"kind"} = {"httpMethod", "path", "require", "handler"}

-----------------------------------------------------------------------------
(* Resolving a route tree and registering its routes with the framework    *)

MaxResolves == 2

RegRouteGet == [as |-> <<"g">>] @@ BaseRoute("GET", <<"g">>, <<"p">>, "index")
RegRouteDelete == BaseRoute("DELETE", <<"d">>, <<"q">>, "index")
RegRoutePost == BaseRoute("POST", <<"g">>, <<"p">>, "index")

RegTrees ==
    { Arr(<<>>),
      Arr(<<RegRouteGet>>),
      Arr(<<RegRouteGet, Arr(<<RegRouteDelete>>)>>),
      Arr(<<Arr(<<RegRouteDelete, Arr(<<RegRoutePost>>)>>), RegRouteGet>>),
      Arr(<<RegRoutePost, RegRouteDelete, RegRouteGet>>),
      Arr(<<RegRouteDelete, Arr(<<>>), Arr(<<RegRouteGet, RegRouteGet>>)>>) }

\* What the loader does for a require path: the outcomes of LoaderOutcomes, and a
\* module that holds the handler in its default export and among its own exports.
RegOutcomes == LoaderOutcomes \cup {Return(Module({"index"}, {"index"}))}

\* The second elements of the tuples handed to registerExpressRoute: modules, an
\* Error, a string.
RegModules ==
    { Module({"index"}, {}), Module({"default"}, {"index"}), Module({"index"}, {"index"}),
      Module({"other"}, {}), Module({"default"}, {"other"}),
      JsError("Error", "Cannot find module"), [kind |-> "string", chars |-> "boom"] }

\* A registrar of one's own: the tuple with '/o' added to the route's path.
CustomRegistrar(tuples) ==
    [t \in {tuples.items[i] : i \in 1..Len(tuples.items)} |->
        Arr(<<[t.items[1] EXCEPT !.path = @ \o <<Slash, "o">>], t.items[2]>>)]

InitRegister ==
    /\ pc = "init"
    /\ routes \in RegTrees
    /\ moduleRequirer \in [{<<"p">>, <<"q">>} -> RegOutcomes]
    /\ route = Undefined
    /\ properties = Undefined
    /\ alias = <<>>
    /\ router = Undefined
    /\ args = <<>>
    /\ app = <<>>
    /\ console = <<>>
    /\ loads = <<>>
    /\ result = Undefined

\* resolve(routes); `args` keeps the tree of each call
CallResolveTree ==
    /\ pc \in {"init", "resolveTree"}
    /\ Len(args) < MaxResolves
    /\ result' = resolve(routes, moduleRequirer)
    /\ router' = IF result'.kind = "return" THEN result'.value ELSE Undefined
    /\ args' = Append(args, routes)
    /\ loads' = Append(loads, loadRoutesCalls(routes, DefaultRequirer(routes, moduleRequirer)))
    /\ pc' = "resolveTree"
    /\ UNCHANGED <<routes, moduleRequirer, route, properties, alias, app, console>>

\* register(app, router)
CallRegister ==
    /\ pc = "resolveTree"
    /\ router.kind = "router"
    /\ LET out == register(app, console, router) IN
         /\ result' = [kind |-> out.kind, value |-> out.value]
         /\ app' = out.app
         /\ console' = out.console
    /\ pc' = "register"
    /\ UNCHANGED <<routes, moduleRequirer, route, properties, alias, router, args, loads>>

\* register(app, router, expressRouteRegistrar)
CallRegisterWith ==
    /\ pc = "resolveTree"
    /\ router.kind = "router"
    /\ result' = Return(registerWith(router, CustomRegistrar(router.routes)))
    /\ pc' = "registerWith"
    /\ UNCHANGED <<routes, moduleRequirer, route, properties, alias, router, args, app, console, loads>>

\* registerExpressRoute(app, [route, routeModule])
CallRegisterExpressRoute ==
    /\ pc = "init"
    /\ \E httpMethod \in HTTPMethod, routeModule \in RegModules :
         LET r == BaseRoute(httpMethod, <<"g">>, <<"p">>, "index")
             out == registerExpressRoute(app, console, Arr(<<r, routeModule>>))
         IN /\ route' = r
            /\ args' = <<Arr(<<r, routeModule>>)>>
            /\ result' = [kind |-> out.kind, value |-> out.value]
            /\ app' = out.app
            /\ console' = out.console
    /\ pc' = "registerExpressRoute"
    /\ UNCHANGED <<routes, moduleRequirer, properties, alias, router, loads>>

NextRegister == CallResolveTree \/ CallRegister \/ CallRegisterWith \/ CallRegisterExpressRoute

SpecRegister == InitRegister /\ [][NextRegister]_vars

\* The app member of each HTTP method.
VerbMember ==
    [m \in HTTPMethod |->
        CASE m = "DELETE" -> "delete" [] m = "GET" -> "get" [] m = "HEAD" -> "head"
          [] m = "PATCH" -> "patch" [] m = "POST" -> "post" [] m = "PUT" -> "put"]

InDefault(tuple) ==
    tuple.items[2].kind = "module" /\ tuple.items[1].handler \in tuple.items[2].default

InOwn(tuple) ==
    tuple.items[2].kind = "module" /\ tuple.items[1].handler \in tuple.items[2].own

HandlerResolves(tuple) == InDefault(tuple) \/ InOwn(tuple)

\* The call a tuple with a handler gives on the app.
ExpectedCall(tuple) ==
    [member |-> VerbMember[tuple.items[1].httpMethod],
     path |-> tuple.items[1].path,
     handler |-> [kind |-> "function",
                  slot |-> IF InDefault(tuple) THEN "default" ELSE "own",
                  name |-> tuple.items[1].handler]]

\* C21: for a tuple whose handler resolves (module.default[handler] first, else
\* module[handler]), registerExpressRoute makes one call on the app, of the member
\* named by the lower-cased httpMethod, with (route.path, handler), and no other.
C21_OneVerbCall ==
    (pc = "registerExpressRoute" /\ HandlerResolves(args[1])) =>
        /\ app = <<ExpectedCall(args[1])>>
        /\ result.kind = "return"

C21_Witness ==
    /\ pc = "registerExpressRoute"
    /\ args[1].items[2] = Module({"index"}, {"index"})
    /\ args[1].items[1].httpMethod = "DELETE"
    /\ Len(app) = 1
    /\ app[1].member = "delete"
    /\ app[1].handler.slot = "default"

ResolvingTuples(tuples) == SelectSeq(tuples, HandlerResolves)

\* C22: when no handler resolves, registerExpressRoute calls nothing on the app,
\* throws nothing, logs a warning naming the route's path, handler and require, and
\* returns the tuple; and register makes, for the other routes, the calls it makes
\* for a router without the failing ones.
C22_MissingHandlerSkipped ==
    /\ (pc = "registerExpressRoute" /\ ~HandlerResolves(args[1])) =>
          /\ app = <<>>
          /\ result = Return(args[1])
          /\ console = <<[path |-> route.path, handler |-> route.handler, require |-> route.require]>>
    /\ pc = "register" =>
          /\ result.kind = "return"
          /\ app = register(<<>>, <<>>,
                     [router EXCEPT !.routes = Arr(ResolvingTuples(router.routes.items))]).app
          /\ Len(console) = Len(router.routes.items) - Len(ResolvingTuples(router.routes.items))

C22_Witness ==
    /\ pc = "register"
    /\ console # <<>>
    /\ app # <<>>
    /\ \E i, j \in 1..Len(router.routes.items) :
         i < j /\ ~HandlerResolves(router.routes.items[i]) /\ HandlerResolves(router.routes.items[j])

\* C23: register(app, router) returns a router equal to the one given: the same
\* tuples in the same order, invalidRoutes and paths unchanged; with a registrar of
\* one's own, routes holds its results element by element and the rest is as given.
C23_RegisterReturnsRouter ==
    /\ pc = "register" => result = Return(router)
    /\ pc = "registerWith" =>
          /\ result.kind = "return"
          /\ DOMAIN result.value = DOMAIN router
          /\ \A k \in DOMAIN router \ {"routes"} : result.value[k] = router[k]
          /\ Len(result.value.routes.items) = Len(router.routes.items)
          /\ \A i \in 1..Len(router.routes.items) :
                /\ result.value.routes.items[i].items[1].path
                     = router.routes.items[i].items[1].path \o <<Slash, "o">>
                /\ result.value.routes.items[i].items[2] = router.routes.items[i].items[2]

C23_Witness ==
    /\ pc = "register"
    /\ Len(router.routes.items) >= 2
    /\ router.invalidRoutes.items # <<>>
    /\ router.paths.keys # <<>>
    /\ app # <<>>
    /\ result.value.invalidRoutes = router.invalidRoutes

\* C30: register calls the app in the order of router.routes, once at most for a
\* tuple and never for a tuple of invalidRoutes: after it, the calls on the app are,
\* in order, those of the valid routes whose handler resolved.
C30_RegistrationOrder ==
    pc = "register" =>
        LET served == ResolvingTuples(router.routes.items) IN
        /\ app = [i \in 1..Len(served) |-> ExpectedCall(served[i])]
        /\ Len(app) <= Len(router.routes.items)

C30_Witness ==
    /\ pc = "register"
    /\ Len(app) >= 2
    /\ app[1].member # app[2].member
    /\ router.invalidRoutes.items # <<>>

\* C25: the module loader and the registrar agree: for a module M the loader
\* returned for a route, the tuple is among the router's routes exactly when the
\* registrar resolves a handler for it.
C25_LoaderAndRegistrarAgree ==
    pc = "resolveTree" =>
        \A r \in RoutesOf(routes) :
            LET outcome == moduleRequirer[r.require] IN
            (outcome.kind = "return" /\ outcome.value.kind = "module") =>
                (InItems(Arr(<<r, outcome.value>>), router.routes)
                    <=> HandlerResolves(Arr(<<r, outcome.value>>)))

\* C29: in a loadRoutes / resolve call the requirer is called once for each leaf of
\* the tree, in the order of the flattened tree, with the route alone; a failed load
\* is not tried again, and a second resolve call makes all the calls again.
C29_OneLoadPerLeaf ==
    pc \in {"resolveTree", "register", "registerWith"} =>
        /\ Len(loads) = Len(args)
        /\ \A k \in 1..Len(loads) :
              LET leaves == Leaves(args[k]) IN
              loads[k] = [i \in 1..Len(leaves) |-> <<leaves[i]>>]

C29_Witness ==
    /\ pc = "resolveTree"
    /\ Len(loads) = 2
    /\ routes = Arr(<<RegRouteDelete, Arr(<<>>), Arr(<<RegRouteGet, RegRouteGet>>)>>)
    /\ moduleRequirer[<<"p">>].kind = "throw"
    /\ Len(loads[2]) = 3
    /\ router.invalidRoutes.items # <<>>

-----------------------------------------------------------------------------
(* What buildPathHelpers hands to the path builder                         *)

\* C24: buildPathHelpers builds each stored generator by calling the path builder
\* with the RouteModuleTuple of the retained route, the value
\* routeModuleTupleToPathBuilder takes the head of, so that the generator is closed
\* over that tuple's route: called with {}, it returns the route's path.
C24_BuilderGetsTuple ==
    BuiltHelpers =>
        \A a \in AliasesOf(routes) :
            LET tuple == routes.items[LastPosition(routes, a)] IN
            /\ result.value.map[a].bound = tuple
            /\ pc = "buildPathHelpers" =>
                  CallGenerator(result.value.map[a], Obj(EmptyMap)) = Return(tuple.items[1].path)

-----------------------------------------------------------------------------
(* Path generators: names with digits, values that look like placeholders  *)

MaxSubstSegments == 3

\* A literal, two placeholders, and a placeholder whose name ends in a digit.
SubstSegments == {<<"x">>, <<":", "a">>, <<":", "b">>, <<":", "a", "2">>}

SubstPaths ==
    {JoinWith(segs, <<Slash>>) : segs \in UNION {[1..n -> SubstSegments] : n \in 1..MaxSubstSegments}}

SubstKeys == {<<"a">>, <<"b">>, <<"a", "2">>}

\* A plain value, and values that are themselves ':name' segments.
SubstValues == {<<"1">>, <<":", "b">>, <<":", "a">>}

InitSubst ==
    /\ pc = "init"
    /\ route \in {BaseRoute("GET", p, <<"c">>, "one") : p \in SubstPaths}
    /\ properties \in {Obj(m) : m \in UNION {[K -> SubstValues] : K \in SUBSET SubstKeys}}
    /\ routes = Arr(<<>>)
    /\ moduleRequirer = <<>>
    /\ alias = <<>>
    /\ router = Undefined
    /\ args = <<>>
    /\ app = <<>>
    /\ console = <<>>
    /\ loads = <<>>
    /\ result = Undefined

SpecSubst == InitSubst /\ [][NextGen]_vars

\* The places of the segments of a path that start with a colon.
ColonSegments(path) ==
    {i \in 1..Len(Split(path)) : Split(path)[i] # <<>> /\ Split(path)[i][1] = Colon}

\* C26: a segment ':identifier' is a placeholder also when the identifier holds a
\* digit: with ':a2' the one placeholder of the path and a value given for a2, the
\* generator puts the value in its place.
C26_DigitsInNames ==
    (/\ Called /\ GivenMapping
     /\ Cardinality(ColonSegments(route.path)) = 1
     /\ \A i \in ColonSegments(route.path) : Split(route.path)[i] = <<":", "a", "2">>
     /\ <<"a", "2">> \in DOMAIN properties.map) =>
        /\ result.kind = "return"
        /\ \A i \in ColonSegments(route.path) :
             Split(result.value)[i] = properties.map[<<"a", "2">>]

\* The orders a sequence can be put in.
OrdersOf(seq) ==
    {[i \in 1..Len(seq) |-> seq[f[i]]] :
        f \in {g \in [1..Len(seq) -> 1..Len(seq)] : \A i, j \in 1..Len(seq) : g[i] = g[j] => i = j}}

\* C27: the result does not depend on the order of the substitutions: the per-key
\* replacements of the generator, applied in any order, give the string it returns,
\* also when a value is itself a ':name' segment.
C27_OrderIndependent ==
    (Called /\ GivenMapping) =>
        /\ result.kind = "return"
        /\ \A pairs \in OrdersOf(RToPairs(RPick(pathPropertiesMatcher(route.path), properties).value)) :
             ReducePairs(route.path, pairs) = result.value

-----------------------------------------------------------------------------
(* Namespaces within namespaces                                            *)

AliasPrefix(N) == IF "as" \in DOMAIN N THEN N.as ELSE N.path

\* C28: nested namespaces prefix one after the other: for a route inside the
\* namespaces N1 (outer) and N2 (inner), path is join(N1.path, N2.path, route.path),
\* require is join(N1.require, N2.require, route.require), and an alias is the
\* hyphen slug of the prefixes of N1 and N2 followed by the route's alias.
C28_NestingPrefixes ==
    pc = "nestedNamespace" =>
        LET N1 == args[1]
            N2 == args[2]
            R == args[3]
            out == result.value.items[1].items[1]
        IN /\ Segments(out.path) = Segments(N1.path) \o Segments(N2.path) \o Segments(R.path)
           /\ NoDoubledSlash(out.path)
           /\ Segments(out.require) = Segments(N1.require) \o Segments(N2.require) \o Segments(R.require)
           /\ NoDoubledSlash(out.require)
           /\ DOMAIN out = DOMAIN R
           /\ "as" \in DOMAIN R =>
                out.as = TrimHyphens(SlashesToHyphens(
                             pathJoiner(AliasPrefix(N1), pathJoiner(AliasPrefix(N2), R.as))))

====
